---- MODULE Spec2Model ----
(***************************************************************************)
(* A model of the COMS-1 xRIT demultiplexer (src/demux/demuxer.py and      *)
(* src/demux/ccsds.py): the receive queue, the core worker loop, the       *)
(* continuity check, the per-VCID channel handlers and the CP_PDU /        *)
(* TP_File / xRIT stages.  Frames are byte sequences; every parser reads   *)
(* the same bit fields as the code.  The packet zone is ZoneLen bytes      *)
(* long instead of 884, and every size the code derives from the frame     *)
(* size is derived from ZoneLen here.                                      *)
(***************************************************************************)
EXTENDS Integers, Sequences, FiniteSets, TLC

(* ------------------------------ bounds -------------------------------- *)

\* Length of the M_PDU packet zone (884 on the wire), scaled down.
ZoneLen == 60
\* Cap on the number of frames waiting in the receive queue.
MaxQueue == 2
\* Cap on the number of frames the link loses in one run.
MaxDrops == 2

\* Longest data field of the encrypted-file runs, in bytes.
MaxData == 9

(* -------------------------- program constants ------------------------- *)

COMS1_SCID == 195
FILL_VCID == 63
NO_HEADER == 2047
COUNTER_MAX == 16777215
NO_COUNTER == -1
NO_VCID == -1

(* ------------------------------ bytes --------------------------------- *)

Min(a, b) == IF a < b THEN a ELSE b
Max(a, b) == IF a > b THEN a ELSE b

\* F applied to the value of e (the only element of the set below); written
\* this way so that e is evaluated once however often F uses it.
ValueOf(e, F(_)) == CHOOSE r \in {F(x) : x \in {e}} : TRUE

RECURSIVE Pow2(_)
Pow2(n) == IF n <= 0 THEN 1 ELSE 2 * Pow2(n - 1)

\* Python's data[a:b] for 0 <= a, 0 <= b.
Slice(s, a, b) == SubSeq(s, Min(a, Len(s)) + 1, Min(b, Len(s)))

\* Python's data[a:].
SliceFrom(s, a) == SubSeq(s, Min(a, Len(s)) + 1, Len(s))

\* Python's data[:-2].
DropLast2(s) == SubSeq(s, 1, Len(s) - 2)

\* Python's data[-2:].
Last2(s) == SubSeq(s, Max(1, Len(s) - 1), Len(s))

\* int.from_bytes(s, byteorder='big')
RECURSIVE BytesToInt(_)
BytesToInt(s) ==
    IF Len(s) = 0 THEN 0
    ELSE 256 * BytesToInt(SubSeq(s, 1, Len(s) - 1)) + s[Len(s)]

\* Bit i (0 = most significant) of the count-bit big-endian view of data.
BitAt(data, i, count) ==
    LET pad == count - 8 * Len(data)
    IN  IF i < pad THEN 0
        ELSE (data[((i - pad) \div 8) + 1] \div Pow2(7 - ((i - pad) % 8))) % 2

\* The unsigned integer in bits lo .. hi of that view, most significant first.
RECURSIVE BitsValue(_, _, _, _)
BitsValue(data, lo, hi, count) ==
    IF lo > hi THEN 0
    ELSE IF lo = hi THEN BitAt(data, lo, count)
    ELSE LET mid   == (lo + hi) \div 2
             left  == BitsValue(data, lo, mid, count)
             right == BitsValue(data, mid + 1, hi, count)
         IN  IF left = 0 THEN right ELSE left * Pow2(hi - mid) + right

\* tools.get_bits_int(data, start, length, count): the unsigned integer in
\* bits start .. start+length-1, most significant bit first.
get_bits_int(data, start, length, count) ==
    BitsValue(data, start, start + length - 1, count)

RECURSIVE Xor(_, _, _)
Xor(a, b, n) ==
    IF n = 0 THEN 0
    ELSE ((a + b) % 2) + 2 * Xor(a \div 2, b \div 2, n - 1)

(* ------------------------- CRC-16/CCITT-FALSE ------------------------- *)

\* tools.CCITT_LUT(): the 256-entry table of CRC-16/CCITT-FALSE (polynomial
\* 0x1021, no reflection); entry i of the code's list is element i + 1 here.
CCITT_LUT ==
    <<     0,  4129,  8258, 12387, 16516, 20645, 24774, 28903,
       33032, 37161, 41290, 45419, 49548, 53677, 57806, 61935,
        4657,   528, 12915,  8786, 21173, 17044, 29431, 25302,
       37689, 33560, 45947, 41818, 54205, 50076, 62463, 58334,
        9314, 13379,  1056,  5121, 25830, 29895, 17572, 21637,
       42346, 46411, 34088, 38153, 58862, 62927, 50604, 54669,
       13907,  9842,  5649,  1584, 30423, 26358, 22165, 18100,
       46939, 42874, 38681, 34616, 63455, 59390, 55197, 51132,
       18628, 22757, 26758, 30887,  2112,  6241, 10242, 14371,
       51660, 55789, 59790, 63919, 35144, 39273, 43274, 47403,
       23285, 19156, 31415, 27286,  6769,  2640, 14899, 10770,
       56317, 52188, 64447, 60318, 39801, 35672, 47931, 43802,
       27814, 31879, 19684, 23749, 11298, 15363,  3168,  7233,
       60846, 64911, 52716, 56781, 44330, 48395, 36200, 40265,
       32407, 28342, 24277, 20212, 15891, 11826,  7761,  3696,
       65439, 61374, 57309, 53244, 48923, 44858, 40793, 36728,
       37256, 33193, 45514, 41451, 53516, 49453, 61774, 57711,
        4224,   161, 12482,  8419, 20484, 16421, 28742, 24679,
       33721, 37784, 41979, 46042, 49981, 54044, 58239, 62302,
         689,  4752,  8947, 13010, 16949, 21012, 25207, 29270,
       46570, 42443, 38312, 34185, 62830, 58703, 54572, 50445,
       13538,  9411,  5280,  1153, 29798, 25671, 21540, 17413,
       42971, 47098, 34713, 38840, 59231, 63358, 50973, 55100,
        9939, 14066,  1681,  5808, 26199, 30326, 17941, 22068,
       55628, 51565, 63758, 59695, 39368, 35305, 47498, 43435,
       22596, 18533, 30726, 26663,  6336,  2273, 14466, 10403,
       52093, 56156, 60223, 64286, 35833, 39896, 43963, 48026,
       19061, 23124, 27191, 31254,  2801,  6864, 10931, 14994,
       64814, 60687, 56684, 52557, 48554, 44427, 40424, 36297,
       31782, 27655, 23652, 19525, 15522, 11395,  7392,  3265,
       61215, 65342, 53085, 57212, 44955, 49082, 36825, 40952,
       28183, 32310, 20053, 24180, 11923, 16050,  3793,  7920 >>

\* Entry i of the table computed from the polynomial: i shifted left 8 bits,
\* then 8 times shifted left 1 bit with 0x1021 folded in on overflow.
RECURSIVE LutShift(_, _)
LutShift(c, k) ==
    IF k = 0 THEN c
    ELSE LutShift(IF c >= 32768 THEN Xor((c * 2) % 65536, 4129, 16)
                                ELSE (c * 2) % 65536, k - 1)

\* One step of CP_PDU.CRC's loop: the CRC after one more byte.
CrcStep(crc, byte, lut) ==
    LET lutPos == Xor(crc \div 256, byte, 16) % 65536
    IN  Xor((crc * 256) % 65536, lut[lutPos + 1], 16) % 65536

\* CP_PDU.CRC's loop over bytes lo .. hi of data, starting from crc.
RECURSIVE CrcRange(_, _, _, _, _)
CrcRange(data, lo, hi, crc, lut) ==
    IF lo > hi \/ crc < 0 THEN crc
    ELSE IF lo = hi THEN CrcStep(crc, data[lo], lut)
    ELSE CrcRange(data, (lo + hi) \div 2 + 1, hi,
                  CrcRange(data, lo, (lo + hi) \div 2, crc, lut), lut)

\* The CRC the code computes over PAYLOAD[:-2], initial value 0xFFFF.
CrcOf(data, lut) == CrcRange(data, 1, Len(data), 65535, lut)

\* CP_PDU.CRC: computed CRC equals the big-endian trailer PAYLOAD[-2:].
CRC(payload, lut) == CrcOf(DropLast2(payload), lut) = BytesToInt(Last2(payload))

(* ------------------------------ parsers ------------------------------- *)

\* VCDU.parse: the 6-byte primary header and the M_PDU that follows it.
VCDU(data) ==
    LET header == Slice(data, 0, 6)
    IN  [ VER     |-> get_bits_int(header, 0, 2, 48),
          SCID    |-> get_bits_int(header, 2, 8, 48),
          VCID    |-> get_bits_int(header, 10, 6, 48),
          COUNTER |-> get_bits_int(header, 16, 24, 48),
          REPLAY  |-> get_bits_int(header, 40, 1, 48),
          SPARE   |-> get_bits_int(header, 41, 7, 48),
          MPDU    |-> SliceFrom(data, 6) ]

\* VCDU.get_SC: the spacecraft name, "None" for an unknown id.
get_SC(scid) == IF scid = COMS1_SCID THEN "COMS-1" ELSE "None"

\* M_PDU.parse: first header pointer, header flag and packet zone.
M_PDU(data) ==
    LET ptr == get_bits_int(Slice(data, 0, 2), 5, 11, 16)
    IN  [ POINTER |-> ptr,
          HEADER  |-> (ptr # NO_HEADER),
          PACKET  |-> SliceFrom(data, 2) ]

\* The names of the 2-bit sequence flag, indexed from 0.
seqn == <<"CONTINUE", "FIRST", "LAST", "SINGLE">>

\* CP_PDU.__init__ / CP_PDU.parse
CP_PDU(data) ==
    LET header == Slice(data, 0, 6)
    IN  [ APID    |-> get_bits_int(header, 5, 11, 48),
          SEQ     |-> seqn[get_bits_int(header, 16, 2, 48) + 1],
          COUNTER |-> get_bits_int(header, 18, 14, 48),
          LENGTH  |-> get_bits_int(header, 32, 16, 48) + 1,
          PAYLOAD |-> SliceFrom(data, 6) ]

\* CP_PDU.append
CP_append(c, data) == [c EXCEPT !.PAYLOAD = c.PAYLOAD \o data]

\* CP_PDU.finish: the CP_PDU with the last chunk appended, and the two checks.
CP_finish(c, data, lut) ==
    LET d == CP_append(c, data)
    IN  [ cppdu |-> d,
          lenok |-> (Len(d.PAYLOAD) = d.LENGTH),
          crcok |-> CRC(d.PAYLOAD, lut) ]

\* CP_PDU.is_EOF
is_EOF(c) == c.COUNTER = 0 /\ c.APID = 0 /\ c.LENGTH = 1 /\ c.SEQ = "CONTINUE"

\* TP_File.__init__ / TP_File.parse.  openedBy and finished record which
\* CP_PDU opened the object and whether finish() has been called on it.
TP_File(data, seq) ==
    LET header == Slice(data, 0, 10)
    IN  [ COUNTER  |-> get_bits_int(header, 0, 16, 80),
          LENGTH   |-> get_bits_int(header, 16, 64, 80) \div 8,
          PAYLOAD  |-> SliceFrom(data, 10),
          openedBy |-> seq,
          finished |-> FALSE ]

\* TP_File.append
TP_append(t, data) == [t EXCEPT !.PAYLOAD = t.PAYLOAD \o data]

\* A mutant of TP_finish: the length check always succeeds.
TP_finish_nocheck(t, data) ==
    [ tpfile |-> [TP_append(t, data) EXCEPT !.finished = TRUE], lenok |-> TRUE ]

\* TP_File.finish: the file with the last chunk appended, and the length check.
TP_finish(t, data) ==
    LET u == TP_append(t, data)
    IN  [ tpfile |-> [u EXCEPT !.finished = TRUE],
          lenok  |-> (Len(u.PAYLOAD) = u.LENGTH) ]

\* S_PDU.__init__ with an empty key table (keys == {}): PLAINTEXT is the data.
S_PDU_PLAINTEXT(data) == data

\* A key table maps 2-byte key indexes to 8-byte DES keys; the empty table
\* is the function with no index.
NoKeys == << >>

\* The padding of S_PDU.parse: len(dataField) % 8 times, the three
\* characters of the literal b'x00' (120, 48, 48) are appended.
RECURSIVE Repeat(_, _)
Repeat(s, n) == IF n <= 0 THEN <<>> ELSE s \o Repeat(s, n - 1)

S_PDU_pad(dataField) == dataField \o Repeat(<<120, 48, 48>>, Len(dataField) % 8)

\* The loop of S_PDU.parse that looks for the key header (type 7) in the
\* header field, from the given offset: the offset of that header, or -1
\* when the loop never ends (a record of length 0 that is not of type 7,
\* which is also what reading past the end of the header field yields).
RECURSIVE KeyOffset(_, _)
KeyOffset(headerField, offset) ==
    IF BytesToInt(Slice(headerField, offset, offset + 1)) = 7 THEN offset
    ELSE IF BytesToInt(Slice(headerField, offset + 1, offset + 3)) = 0 THEN -1
    ELSE KeyOffset(headerField,
                   offset + BytesToInt(Slice(headerField, offset + 1, offset + 3)))

\* A mutant of S_PDU_lookup: an index that is not in the table and is not
\* 0x0000 selects the all-zero key instead of none.
S_PDU_lookup_zerokey(headerField, field, keys, offset, index) ==
    [ hung |-> FALSE, headerField |-> headerField, field |-> field,
      dataField |-> S_PDU_pad(field), index |-> index,
      key |-> IF index \in DOMAIN keys THEN keys[index]
              ELSE IF index = <<0, 0>> THEN <<>>
              ELSE <<0, 0, 0, 0, 0, 0, 0, 0>>,
      unknown |-> FALSE ]

\* The end of S_PDU.parse, with the key header found at offset: the key
\* index is looked up; an index that is not in the table gives key 0 (the
\* empty sequence here), and a message unless it is 0x0000.
S_PDU_lookup(headerField, field, keys, offset, index) ==
    [ hung |-> FALSE, headerField |-> headerField, field |-> field,
      dataField |-> S_PDU_pad(field), index |-> index,
      key |-> IF index \in DOMAIN keys THEN keys[index] ELSE <<>>,
      unknown |-> ~(index \in DOMAIN keys \/ index = <<0, 0>>) ]

\* S_PDU.parse from the header loop on: hung when the loop never ends.
S_PDU_keyHeader(headerField, field, keys, offset) ==
    IF offset = -1
    THEN [ hung |-> TRUE, headerField |-> headerField, field |-> field,
           dataField |-> S_PDU_pad(field), index |-> <<>>, key |-> <<>>,
           unknown |-> FALSE ]
    ELSE S_PDU_lookup(headerField, field, keys, offset,
                      Slice(headerField, offset + 5,
                            offset + BytesToInt(Slice(headerField, offset + 1, offset + 3))))

\* S_PDU.parse from the two lengths of the primary header on: the header
\* field and the data field are cut out of the data.
S_PDU_fields(data, keys, TOTAL_HEADER_LEN, DATA_LEN) ==
    S_PDU_keyHeader(Slice(data, 0, TOTAL_HEADER_LEN),
                    Slice(data, TOTAL_HEADER_LEN, TOTAL_HEADER_LEN + DATA_LEN),
                    keys,
                    KeyOffset(Slice(data, 0, TOTAL_HEADER_LEN), 0))

\* S_PDU.parse: the header field, the data field as cut and as padded, the
\* key index and the key.
S_PDU_parse(data, keys) ==
    S_PDU_fields(data, keys,
                 get_bits_int(Slice(data, 0, 16), 32, 32, 128),
                 get_bits_int(Slice(data, 0, 16), 64, 64, 128))

\* DES in ECB mode (Crypto.Cipher.DES) stands here as a keyed permutation of
\* 8-byte blocks: each byte is combined with the key byte at its place in
\* the block.  Data that is not a whole number of blocks is refused.
DES_aligned(data) == Len(data) % 8 = 0
DES_decrypt(key, data) == [i \in 1..Len(data) |-> Xor(data[i], key[((i - 1) % 8) + 1], 8)]
DES_encrypt(key, data) == DES_decrypt(key, data)

\* A mutant of S_PDU_parsed: without a key the output is the header field
\* and the padded data field.
S_PDU_parsed_padded(data, p) ==
    [ status    |-> IF p.hung THEN "hung"
                    ELSE IF p.key # <<>> /\ ~DES_aligned(p.dataField) THEN "raised"
                    ELSE "ok",
      PLAINTEXT |-> IF p.hung THEN <<>>
                    ELSE IF p.key = <<>> THEN p.headerField \o p.dataField
                    ELSE IF ~DES_aligned(p.dataField) THEN <<>>
                    ELSE p.headerField \o DES_decrypt(p.key, p.dataField),
      parsed    |-> <<p>> ]

\* S_PDU.__init__ after parse(): decrypt() when a key was found, the data
\* as it is otherwise.  status is "hung" when parse never returns and
\* "raised" when DES refuses the data field.
S_PDU_parsed(data, p) ==
    [ status    |-> IF p.hung THEN "hung"
                    ELSE IF p.key # <<>> /\ ~DES_aligned(p.dataField) THEN "raised"
                    ELSE "ok",
      PLAINTEXT |-> IF p.hung THEN <<>>
                    ELSE IF p.key = <<>> THEN data
                    ELSE IF ~DES_aligned(p.dataField) THEN <<>>
                    ELSE p.headerField \o DES_decrypt(p.key, p.dataField),
      parsed    |-> <<p>> ]

\* S_PDU.__init__: PLAINTEXT, and what parse() found when it was called.
S_PDU(data, keys) ==
    IF DOMAIN keys = {}
    THEN [ status |-> "ok", PLAINTEXT |-> S_PDU_PLAINTEXT(data), parsed |-> <<>> ]
    ELSE ValueOf(S_PDU_parse(data, keys), LAMBDA p : S_PDU_parsed(data, p))

\* xRIT.get_next_header / xRIT.get_header_len
get_next_header(data, offset) == BytesToInt(Slice(data, offset, offset + 1))
get_header_len(data, offset) == BytesToInt(Slice(data, offset + 1, offset + 3))

\* The loop of xRIT.parse that looks for the annotation text header (type 4):
\* the offset of that header, or -1 when the loop never ends (a record of
\* length 0 that is not of type 4, which is also what reading past the end
\* of the data yields).
RECURSIVE AnnotationOffset(_, _)
AnnotationOffset(data, offset) ==
    IF get_next_header(data, offset) = 4 THEN offset
    ELSE IF get_header_len(data, offset) = 0 THEN -1
    ELSE AnnotationOffset(data, offset + get_header_len(data, offset))

\* str.split: the fields of s between the separator bytes.
RECURSIVE split(_, _)
split(s, sep) ==
    IF \A i \in 1..Len(s) : s[i] # sep THEN <<s>>
    ELSE LET at == CHOOSE i \in 1..Len(s) : s[i] = sep /\ \A j \in 1..(i - 1) : s[j] # sep
         IN  <<SubSeq(s, 1, at - 1)>> \o split(SubSeq(s, at + 1, Len(s)), sep)

\* xRIT.get_save_path: the directories (date, mode) and the file name under
\* the output root.  A name that is neither IMG_ nor ADD_, or has too few
\* fields or no extension, raises an exception no caller catches.
get_save_path(name) ==
    LET fnameSplit == split(name, 95)
        fExt       == Len(split(name, 46)) >= 2
    IN  IF fnameSplit[1] = <<73, 77, 71>> /\ Len(fnameSplit) >= 7 /\ fExt
        THEN [ raised |-> FALSE, path |-> <<fnameSplit[5], fnameSplit[2], name>> ]
        ELSE IF fnameSplit[1] = <<65, 68, 68>> /\ Len(fnameSplit) >= 6 /\ fExt
        THEN [ raised |-> FALSE, path |-> <<fnameSplit[4], fnameSplit[2], name>> ]
        ELSE [ raised |-> TRUE, path |-> <<>> ]

\* xRIT.parse: FILE_NAME, or hung when the header loop never ends.  The name
\* is kept as bytes: the names used here are ASCII, which utf-8 decodes as is.
xRIT(data) ==
    LET hlen == get_bits_int(Slice(data, 0, 16), 8, 16, 128)
        off  == AnnotationOffset(data, hlen)
    IN  IF off = -1 THEN [ hung |-> TRUE, FILE_NAME |-> <<>>, data |-> data ]
        ELSE [ hung      |-> FALSE,
               FILE_NAME |-> Slice(data, off + 3, off + get_header_len(data, off)),
               data      |-> data ]

(* -------------------------- channel handler --------------------------- *)

\* Channel.__init__: no current CP_PDU and no current TP_File (the empty
\* sequence is None, a one-element sequence holds the object).
Channel_init ==
    [ cCPPDU |-> <<>>, cTPFile |-> <<>> ]

\* A channel as the worker sees it while it handles one frame: the channel's
\* own fields, what the calls have done so far (files: the xRIT files saved;
\* skips: the "SKIPPING FILE" reports; finished: the CP_PDUs finish() was
\* called on; handled: the CP_PDUs passed to handle_CPPDU), and whether the
\* worker is still running.
WorkOf(ch, fs, fin, hd, sk, k, sp) ==
    [ cCPPDU |-> ch.cCPPDU, cTPFile |-> ch.cTPFile,
      files |-> fs, finished |-> fin, handled |-> hd, skips |-> sk, status |-> "ok",
      keys |-> k, spdus |-> sp ]

\* xRIT.save after xRIT(spdu.PLAINTEXT).  The worker does not return from an
\* xRIT.parse that loops for ever, and dies of an exception raised by
\* xRIT.save.  A saved file is recorded with the sequence flag of the
\* CP_PDU that closed it and the length its TP_File header declared.
Saved(v, c, fin, x) ==
    IF x.hung
    THEN [v EXCEPT !.status = "hung"]
    ELSE IF get_save_path(x.FILE_NAME).raised
    THEN [v EXCEPT !.status = "raised"]
    ELSE [v EXCEPT !.files = Append(@, [path |-> get_save_path(x.FILE_NAME).path,
                                        data |-> x.data,
                                        by |-> c.SEQ,
                                        LENGTH |-> fin.tpfile.LENGTH])]

\* The LAST branch of handle_CPPDU once the S_PDU is built, which the worker
\* survives only when S_PDU returned; the S_PDU is recorded in spdus.
Decrypted(w, c, fin, spdu) ==
    IF spdu.status # "ok"
    THEN [w EXCEPT !.cTPFile = <<fin.tpfile>>, !.status = spdu.status,
                   !.spdus = Append(@, [data |-> fin.tpfile.PAYLOAD, spdu |-> spdu])]
    ELSE Saved([w EXCEPT !.cTPFile = <<fin.tpfile>>,
                         !.spdus = Append(@, [data |-> fin.tpfile.PAYLOAD, spdu |-> spdu])],
               c, fin, xRIT(spdu.PLAINTEXT))

\* The LAST branch of handle_CPPDU once the TP_File is finished: decrypt and
\* save on length success, report a skipped file otherwise, recorded with the
\* declared and the actual length.
EmitOrSkip(w, c, fin) ==
    IF fin.lenok
    THEN ValueOf(S_PDU(fin.tpfile.PAYLOAD, w.keys), LAMBDA spdu : Decrypted(w, c, fin, spdu))
    ELSE [w EXCEPT !.cTPFile = <<fin.tpfile>>,
                   !.skips = Append(@, [LENGTH |-> fin.tpfile.LENGTH,
                                        actual |-> Len(fin.tpfile.PAYLOAD)])]

\* The LAST branch of handle_CPPDU.
HandleLast(w, c) ==
    ValueOf(TP_finish(w.cTPFile[1], DropLast2(c.PAYLOAD)), LAMBDA fin : EmitOrSkip(w, c, fin))

\* A mutant of handle_CPPDU: the AttributeError of a CONTINUE or LAST with no
\* TP_File is not caught.
handle_CPPDU_uncaught(w0, c) ==
    LET w == [w0 EXCEPT !.handled =
                 Append(@, [APID |-> c.APID, SEQ |-> c.SEQ, COUNTER |-> c.COUNTER,
                            LENGTH |-> c.LENGTH, PAYLOAD |-> c.PAYLOAD,
                            tpfile |-> (w0.cTPFile # <<>>)])]
    IN  CASE c.SEQ = "FIRST" ->
               [w EXCEPT !.cTPFile = <<TP_File(DropLast2(c.PAYLOAD), c.SEQ)>>]
          [] c.SEQ = "CONTINUE" ->
               IF w.cTPFile = <<>> THEN [w EXCEPT !.status = "raised"]
               ELSE [w EXCEPT !.cTPFile = <<TP_append(w.cTPFile[1], DropLast2(c.PAYLOAD))>>]
          [] c.SEQ = "LAST" ->
               IF w.cTPFile = <<>> THEN [w EXCEPT !.status = "raised"]
               ELSE HandleLast(w, c)
          [] OTHER -> w

\* Channel.handle_CPPDU, called with a finished CP_PDU.  A CONTINUE or LAST
\* with no TP_File raises AttributeError, which both callers catch: nothing
\* changes.  No branch exists for SINGLE.  The call is recorded in handled,
\* with whether the channel held a TP_File when it was made.
handle_CPPDU(w0, c) ==
    LET w == [w0 EXCEPT !.handled =
                 Append(@, [APID |-> c.APID, SEQ |-> c.SEQ, COUNTER |-> c.COUNTER,
                            LENGTH |-> c.LENGTH, PAYLOAD |-> c.PAYLOAD,
                            tpfile |-> (w0.cTPFile # <<>>)])]
    IN  CASE c.SEQ = "FIRST" ->
               [w EXCEPT !.cTPFile = <<TP_File(DropLast2(c.PAYLOAD), c.SEQ)>>]
          [] c.SEQ = "CONTINUE" ->
               IF w.cTPFile = <<>> THEN w
               ELSE [w EXCEPT !.cTPFile = <<TP_append(w.cTPFile[1], DropLast2(c.PAYLOAD))>>]
          [] c.SEQ = "LAST" ->
               IF w.cTPFile = <<>> THEN w
               ELSE HandleLast(w, c)
          [] OTHER -> w

\* Lines 215 of data_in and 235: finish() has been called on the current
\* CP_PDU; the call is recorded in finished, with its two results.
Finished(w, f) ==
    [w EXCEPT !.cCPPDU = <<f.cppdu>>,
              !.finished = Append(@, [SEQ |-> f.cppdu.SEQ, PAYLOAD |-> f.cppdu.PAYLOAD,
                                      lenok |-> f.lenok, crcok |-> f.crcok])]

\* A mutant of FinishAndHandle: a CP_PDU that fails a check is not handled.
FinishAndHandle_strict(w, tail, lut) ==
    IF w.cCPPDU = <<>> THEN w
    ELSE ValueOf(CP_finish(w.cCPPDU[1], tail, lut),
                 LAMBDA f : IF f.lenok /\ f.crcok
                            THEN handle_CPPDU(Finished(w, f), f.cppdu)
                            ELSE Finished(w, f))

\* Lines 214-221 and 234-241 of data_in: finish the current CP_PDU with the
\* given tail and hand it to handle_CPPDU; with no current CP_PDU the
\* AttributeError is caught and nothing happens.
FinishAndHandle(w, tail, lut) ==
    IF w.cCPPDU = <<>> THEN w
    ELSE ValueOf(CP_finish(w.cCPPDU[1], tail, lut),
                 LAMBDA f : handle_CPPDU(Finished(w, f), f.cppdu))

\* A mutant of ShortRule: the new CP_PDU is left as opened.
ShortRule_never(w, lut) == w

\* Lines 229-241 of data_in: a new CP_PDU shorter than what is left of the
\* packet zone is trimmed to its length, finished and handled at once.
ShortRule(w, lut) ==
    LET c == w.cCPPDU[1]
    IN  IF 1 < c.LENGTH /\ c.LENGTH < ZoneLen + 2 /\ Len(c.PAYLOAD) > c.LENGTH
        THEN FinishAndHandle(
                 [w EXCEPT !.cCPPDU = <<[c EXCEPT !.PAYLOAD = Slice(c.PAYLOAD, 0, c.LENGTH)]>>],
                 <<>>, lut)
        ELSE w

\* A mutant of EofRule: the EOF marker CP_PDU stays the current CP_PDU.
EofRule_keep(w) == w

\* Lines 248-255 of data_in: the EOF marker CP_PDU is dropped.
EofRule(w) ==
    IF w.status = "ok" /\ is_EOF(w.cCPPDU[1]) THEN [w EXCEPT !.cCPPDU = <<>>] ELSE w

\* A mutant of HeaderAfterData: the new CP_PDU is opened, and handled when it
\* is short, before the current one is finished and handled.
HeaderAfterData_newfirst(w, mpdu, lut) ==
    ValueOf(ShortRule([w EXCEPT !.cCPPDU =
                          <<CP_PDU(SliceFrom(mpdu.PACKET, mpdu.POINTER))>>], lut),
            LAMBDA w1 :
                IF w1.status # "ok" THEN w1
                ELSE [FinishAndHandle([w1 EXCEPT !.cCPPDU = w.cCPPDU],
                                      Slice(mpdu.PACKET, 0, mpdu.POINTER), lut)
                          EXCEPT !.cCPPDU = w1.cCPPDU])

\* Lines 210-241 of data_in: the branch for a first header pointer other
\* than 0.  A worker that hangs inside handle_CPPDU goes no further.
HeaderAfterData(w, mpdu, lut) ==
    ValueOf(FinishAndHandle(w, Slice(mpdu.PACKET, 0, mpdu.POINTER), lut),
            LAMBDA w1 :
                IF w1.status # "ok" THEN w1
                ELSE ShortRule([w1 EXCEPT !.cCPPDU =
                                   <<CP_PDU(SliceFrom(mpdu.PACKET, mpdu.POINTER))>>], lut))

\* A mutant of data_in_parsed: a packet zone without a CP_PDU header is
\* discarded whether a CP_PDU is open or not.
data_in_parsed_discard(w, mpdu, lut) ==
    IF mpdu.HEADER
    THEN IF mpdu.POINTER # 0
         THEN ValueOf(HeaderAfterData(w, mpdu, lut), EofRule)
         ELSE ValueOf([w EXCEPT !.cCPPDU = <<CP_PDU(mpdu.PACKET)>>], EofRule)
    ELSE w

\* Channel.data_in
data_in_parsed(w, mpdu, lut) ==
    IF mpdu.HEADER
    THEN IF mpdu.POINTER # 0
         THEN ValueOf(HeaderAfterData(w, mpdu, lut), EofRule)
         ELSE ValueOf([w EXCEPT !.cCPPDU = <<CP_PDU(mpdu.PACKET)>>], EofRule)
    ELSE IF w.cCPPDU = <<>> THEN w
         ELSE [w EXCEPT !.cCPPDU = <<CP_append(w.cCPPDU[1], mpdu.PACKET)>>]

data_in(w, vcdu, lut) ==
    ValueOf(M_PDU(vcdu.MPDU), LAMBDA mpdu : data_in_parsed(w, mpdu, lut))

(* ------------------- the downlink: frames to feed --------------------- *)
(* What follows builds the input frames: it is the transmitting side, not  *)
(* code of the demultiplexer.  A stream is a list of CP_PDUs laid end to   *)
(* end; Packetise cuts it into packet zones and gives each zone the offset *)
(* of the first CP_PDU header that starts in it (2047 when none does).     *)

RECURSIVE EncInt(_, _)
EncInt(v, n) == IF n = 0 THEN <<>> ELSE Append(EncInt(v \div 256, n - 1), v % 256)

\* n bytes b.
Fill(b, n) == [i \in 1..n |-> b]

\* n data bytes 1, 2, ..., starting after k.
Ramp(k, n) == [i \in 1..n |-> ((k + i - 1) % 250) + 1]

SeqNo(seq) == CHOOSE i \in 0..3 : seqn[i + 1] = seq

EncCPHeader(apid, seq, counter, length) ==
    EncInt(apid, 2) \o EncInt(SeqNo(seq) * 16384 + counter, 2) \o EncInt(length - 1, 2)

\* A CP_PDU carrying data, with its CRC trailer.
EncCP(apid, seq, counter, data) ==
    EncCPHeader(apid, seq, counter, Len(data) + 2) \o data
        \o EncInt(CrcOf(data, CCITT_LUT), 2)

\* The same CP_PDU with a wrong CRC trailer.
EncCPBadCrc(apid, seq, counter, data) ==
    EncCPHeader(apid, seq, counter, Len(data) + 2) \o data
        \o EncInt((CrcOf(data, CCITT_LUT) + 1) % 65536, 2)

\* The EOF marker CP_PDU: APID 0, counter 0, CONTINUE, length 1.
EncEOF == EncCPHeader(0, "CONTINUE", 0, 1) \o <<0>>

\* TP_File header: file counter and file length in bits.
EncTPHeader(counter, nbytes) == EncInt(counter, 2) \o EncInt(0, 4) \o EncInt(nbytes * 8, 4)

\* An xRIT file: primary header, annotation text header with the given name,
\* and a data field.
EncXRIT(name, data) ==
    <<0, 0, 16, 0>> \o EncInt(16 + 3 + Len(name), 4) \o EncInt(0, 4) \o EncInt(Len(data) * 8, 4)
        \o <<4>> \o EncInt(3 + Len(name), 2) \o name \o data

\* An xRIT file with a key header (type 7) after the annotation text header:
\* two reserved bytes and the 2-byte key index.
EncXRITKey(name, index, data) ==
    <<0, 0, 16, 0>> \o EncInt(16 + 3 + Len(name) + 7, 4) \o EncInt(0, 4)
        \o EncInt(Len(data) * 8, 4)
        \o <<4>> \o EncInt(3 + Len(name), 2) \o name
        \o <<7>> \o EncInt(7, 2) \o <<0, 0>> \o index
        \o data

RECURSIVE Flatten(_)
Flatten(cps) == IF Len(cps) = 0 THEN <<>> ELSE Head(cps) \o Flatten(Tail(cps))

\* Offsets at which the CP_PDU headers of a stream start.
RECURSIVE Starts(_, _)
Starts(cps, at) ==
    IF Len(cps) = 0 THEN {} ELSE {at} \cup Starts(Tail(cps), at + Len(Head(cps)))

ZoneCount(n) == (n + ZoneLen - 1) \div ZoneLen

ZonePointer(starts, i) ==
    LET here == {s \in starts : i * ZoneLen <= s /\ s < (i + 1) * ZoneLen}
    IN  IF here = {} THEN NO_HEADER
        ELSE (CHOOSE s \in here : \A t \in here : s <= t) - i * ZoneLen

RECURSIVE ZonesFrom(_, _, _, _)
ZonesFrom(padded, starts, i, n) ==
    IF i > n THEN <<>>
    ELSE << EncInt(ZonePointer(starts, i - 1), 2)
                \o SubSeq(padded, (i - 1) * ZoneLen + 1, i * ZoneLen) >>
         \o ZonesFrom(padded, starts, i + 1, n)

\* The M_PDUs of a stream: each a 2-byte header and a zone of ZoneLen bytes,
\* the last zone padded with zero bytes.
Packetise(cps) ==
    LET flat   == Flatten(cps)
        padded == flat \o Fill(0, ZoneCount(Len(flat)) * ZoneLen - Len(flat))
    IN  ZonesFrom(padded, Starts(cps, 0), 1, ZoneCount(Len(flat)))

\* Frames of one spacecraft and virtual channel carrying the given M_PDUs.
RECURSIVE OnChannel(_, _, _)
OnChannel(scid, vcid, mpdus) ==
    IF Len(mpdus) = 0 THEN <<>>
    ELSE <<[SCID |-> scid, VCID |-> vcid, MPDU |-> Head(mpdus)]>>
         \o OnChannel(scid, vcid, Tail(mpdus))

\* A fill frame: VCID 63, no CP_PDU header, zone of zero bytes.
FillFrame == [SCID |-> COMS1_SCID, VCID |-> FILL_VCID,
              MPDU |-> EncInt(NO_HEADER, 2) \o Fill(0, ZoneLen)]

\* The 6-byte VCDU primary header followed by the M_PDU.
EncVCDU(f, counter) ==
    EncInt(f.SCID * 64 + f.VCID, 2) \o EncInt(counter, 3) \o <<0>> \o f.MPDU

(* ------------------------------ scenarios ----------------------------- *)

\* "ADD_FD_01_d_t_00.x", a name get_save_path accepts, and "A", one that it
\* does not.
NameA == <<65, 68, 68, 95, 70, 68, 95, 48, 49, 95, 100, 95, 116, 95, 48, 48, 46, 120>>
NameBad == <<65>>

\* A file of three CP_PDUs (FIRST, CONTINUE, LAST) and the EOF marker; every
\* header starts in a zone of its own, after the end of the previous CP_PDU.
FileClean == EncXRIT(NameA, Ramp(0, 2 * ZoneLen))
StreamClean ==
    << EncCP(1, "FIRST", 1, EncTPHeader(1, Len(FileClean)) \o Slice(FileClean, 0, ZoneLen - 16)),
       EncCP(1, "CONTINUE", 2, Slice(FileClean, ZoneLen - 16, 2 * ZoneLen - 16)),
       EncCP(1, "LAST", 3, SliceFrom(FileClean, 2 * ZoneLen - 16)),
       EncEOF >>

\* A file whose LAST CP_PDU (4 bytes of data) is shorter than what is left of
\* its packet zone.
FileShort == EncXRIT(NameA, Ramp(10, ZoneLen - 12 - (19 + Len(NameA))))
StreamShort ==
    << EncCP(2, "FIRST", 1, EncTPHeader(2, Len(FileShort)) \o Slice(FileShort, 0, ZoneLen - 16)),
       EncCP(2, "LAST", 2, SliceFrom(FileShort, ZoneLen - 16)),
       EncEOF >>

\* A file whose FIRST CP_PDU fills its packet zone exactly, so that the LAST
\* CP_PDU starts at offset 0 of the next zone.
FilePtr0 == EncXRIT(NameA, Ramp(20, ZoneLen + 10))
StreamPtr0 ==
    << EncCP(3, "FIRST", 1, EncTPHeader(3, Len(FilePtr0)) \o Slice(FilePtr0, 0, ZoneLen - 18)),
       EncCP(3, "LAST", 2, SliceFrom(FilePtr0, ZoneLen - 18)),
       EncEOF >>

\* Scenario S1: one SINGLE CP_PDU, complete within one packet zone.
FileS1 == EncXRIT(NameA, <<>>)
StreamS1 == << EncCP(4, "SINGLE", 1, EncTPHeader(4, Len(FileS1)) \o FileS1) >>

\* A SINGLE CP_PDU that ends in the next zone, followed by the EOF marker.
FileSingle == EncXRIT(NameA, Ramp(30, 20))
StreamSingle ==
    << EncCP(5, "SINGLE", 1, EncTPHeader(5, Len(FileSingle)) \o FileSingle),
       EncEOF >>

\* A file whose FIRST CP_PDU carries a wrong CRC.
FileBadCrc == EncXRIT(NameA, Ramp(40, ZoneLen))
StreamBadCrc ==
    << EncCPBadCrc(6, "FIRST", 1, EncTPHeader(6, Len(FileBadCrc)) \o Slice(FileBadCrc, 0, ZoneLen - 16)),
       EncCP(6, "LAST", 2, SliceFrom(FileBadCrc, ZoneLen - 16)),
       EncEOF >>

\* A file whose name get_save_path does not accept.
FileBadName == EncXRIT(NameBad, Ramp(50, ZoneLen))
StreamBadName ==
    << EncCP(7, "FIRST", 1, EncTPHeader(7, Len(FileBadName)) \o Slice(FileBadName, 0, ZoneLen - 16)),
       EncCP(7, "LAST", 2, SliceFrom(FileBadName, ZoneLen - 16)),
       EncEOF >>

\* A file with no annotation text header: the primary header alone.
FileNoName == <<0, 0, 16, 0>> \o EncInt(16, 4) \o EncInt(0, 4) \o EncInt(ZoneLen * 8, 4)
                  \o Ramp(60, ZoneLen)
StreamNoName ==
    << EncCP(8, "FIRST", 1, EncTPHeader(8, Len(FileNoName)) \o Slice(FileNoName, 0, ZoneLen - 16)),
       EncCP(8, "LAST", 2, SliceFrom(FileNoName, ZoneLen - 16)),
       EncEOF >>

\* Zero bytes that fill the packet zone in which a stream ends.
PadToZone(cps) == Fill(0, (ZoneLen - (Len(Flatten(cps)) % ZoneLen)) % ZoneLen)

\* Two files one after the other on one channel, each a FIRST and a LAST
\* CP_PDU and the EOF marker; the zone of the first EOF marker is padded, so
\* that the second file starts with the next zone.
FileOne == EncXRIT(NameA, Ramp(70, ZoneLen))
FileTwo == EncXRIT(NameA, Ramp(80, ZoneLen))
StreamOne ==
    << EncCP(9, "FIRST", 1, EncTPHeader(9, Len(FileOne)) \o Slice(FileOne, 0, ZoneLen - 16)),
       EncCP(9, "LAST", 2, SliceFrom(FileOne, ZoneLen - 16)),
       EncEOF >>
StreamTwoFiles ==
    << StreamOne[1], StreamOne[2], StreamOne[3] \o PadToZone(StreamOne),
       EncCP(9, "FIRST", 3, EncTPHeader(10, Len(FileTwo)) \o Slice(FileTwo, 0, ZoneLen - 16)),
       EncCP(9, "LAST", 4, SliceFrom(FileTwo, ZoneLen - 16)),
       EncEOF >>

\* A file whose FIRST CP_PDU covers a whole packet zone that holds no CP_PDU
\* header: header at offset 0 of the first zone, end in the third.
FileLong == EncXRIT(NameA, Ramp(100, 2 * ZoneLen + 10 - (19 + Len(NameA))))
StreamLong ==
    << EncCP(12, "FIRST", 1, EncTPHeader(12, Len(FileLong)) \o Slice(FileLong, 0, 2 * ZoneLen)),
       EncCP(12, "LAST", 2, SliceFrom(FileLong, 2 * ZoneLen)),
       EncEOF >>

\* The file of run "short" followed at once by a second file on the same
\* channel: the FIRST CP_PDU of the second file starts in the zone of the
\* short LAST CP_PDU, right after it, and ends in the next zone.
StreamBackToBack ==
    << StreamShort[1], StreamShort[2],
       EncCP(2, "FIRST", 3, EncTPHeader(3, Len(FileTwo)) \o Slice(FileTwo, 0, ZoneLen - 16)),
       EncCP(2, "LAST", 4, SliceFrom(FileTwo, ZoneLen - 16)),
       EncEOF >>

\* A spacecraft id that get_SC does not know.
OtherSpacecraft == COMS1_SCID + 1

\* The runs.  frames: the frames in transmission order; vcid and cps: the
\* virtual channel that carries a stream of CP_PDUs and that stream, when the
\* run is one stream packetised whole and closed by the EOF marker.
Run(run, vcid, cps, frames) ==
    [ name |-> run, vcid |-> vcid, cps |-> cps, frames |-> frames ]

Scenarios ==
    << Run("clean", 0, StreamClean, OnChannel(COMS1_SCID, 0, Packetise(StreamClean))),
       Run("short", 1, StreamShort,
           OnChannel(COMS1_SCID, 1, Packetise(StreamShort)) \o <<FillFrame>>),
       Run("ptr0", 0, StreamPtr0, OnChannel(COMS1_SCID, 0, Packetise(StreamPtr0))),
       Run("S1", 0, <<>>,
           OnChannel(COMS1_SCID, 0, Packetise(StreamS1)) \o <<FillFrame, FillFrame>>),
       Run("single", 2, StreamSingle,
           OnChannel(COMS1_SCID, 2, Packetise(StreamSingle)) \o <<FillFrame>>),
       Run("badcrc", 2, StreamBadCrc, OnChannel(COMS1_SCID, 2, Packetise(StreamBadCrc))),
       Run("badname", 3, StreamBadName, OnChannel(COMS1_SCID, 3, Packetise(StreamBadName))),
       Run("noname", 3, StreamNoName, OnChannel(COMS1_SCID, 3, Packetise(StreamNoName))),
       Run("twofiles", 3, <<>>, OnChannel(COMS1_SCID, 3, Packetise(StreamTwoFiles))),
       Run("long", 5, StreamLong, OnChannel(COMS1_SCID, 5, Packetise(StreamLong))),
       Run("backtoback", 4, <<>>, OnChannel(COMS1_SCID, 4, Packetise(StreamBackToBack))),
       Run("mixed", 0, <<>>,
           << OnChannel(COMS1_SCID, 1, Packetise(StreamShort))[1],
              FillFrame,
              OnChannel(COMS1_SCID, 0, Packetise(StreamS1))[1],
              OnChannel(OtherSpacecraft, 1, Packetise(StreamS1))[1],
              OnChannel(COMS1_SCID, 1, Packetise(StreamShort))[2] >>) >>

\* The key table of the encrypted-file runs: one key, at index 0x0001.
KeyIndex == <<0, 1>>
KeyTable == [index \in {KeyIndex} |-> <<1, 35, 69, 103, 137, 171, 205, 239>>]

\* The key indexes sent: plaintext, the key of the table, and one the table
\* does not hold.
PlainIndex == <<0, 0>>
UnknownIndex == <<0, 2>>
SentIndexes == {PlainIndex, KeyIndex, UnknownIndex}

\* A file with a key header and a data field of n bytes, which is encrypted
\* when the index is that of the key; its FIRST CP_PDU carries the TP_File
\* header and the xRIT headers, its LAST CP_PDU the data field.
FileKeyed(index, n) ==
    EncXRITKey(NameA, index,
               IF index = KeyIndex THEN DES_encrypt(KeyTable[KeyIndex], Ramp(90, n))
               ELSE Ramp(90, n))
StreamKeyed(index, n) ==
    << EncCP(11, "FIRST", 1,
             EncTPHeader(11, Len(FileKeyed(index, n)))
                 \o Slice(FileKeyed(index, n), 0, 26 + Len(NameA))),
       EncCP(11, "LAST", 2, SliceFrom(FileKeyed(index, n), 26 + Len(NameA))),
       EncEOF >>

SpduScenarios ==
    { Run("keyed", 4, StreamKeyed(index, n),
          OnChannel(COMS1_SCID, 4, Packetise(StreamKeyed(index, n))))
        : index \in SentIndexes, n \in 1..MaxData }

\* The counter of the first frame sent: far from, and just before, the wrap.
StartCounters == {0, COUNTER_MAX - 1}

(* ------------------------------- state -------------------------------- *)

VARIABLES
    rxq,              \* Demuxer.rxq: the receive queue, oldest frame first
    coreReady,        \* Demuxer.coreReady
    coreStop,         \* Demuxer.coreStop
    channelHandlers,  \* Demuxer.channelHandlers: VCID -> channel
    vcduCounter,      \* Demuxer.vcduCounter, -1 before the first frame
    lastVCID,         \* demux_core's lastVCID, -1 for None
    dumpPath,         \* whether a dump path is configured
    keys,             \* the key table the demuxer was given
    spdus,            \* ghost: the S_PDUs built, each with the TP_File payload
                      \* it was built from
    dumpFile,         \* the dump file: whether it is open, and its content
    pc,               \* where the core thread is
    packet,           \* the frame the core thread has pulled, if any
    files,            \* the xRIT files saved, in order
    skips,            \* the "SKIPPING FILE" reports, in order
    checks,           \* the calls of continuity() and what each printed, in order
    finished,         \* VCID -> the CP_PDUs finish() was called on, in order
    handled,          \* VCID -> the CP_PDUs passed to handle_CPPDU, in order
    dispatched,       \* the frames passed to a channel's data_in, in order
    pushed,           \* the frames push() has taken, in order
    pulled,           \* the frames pull() has returned, in order
    frontend,         \* where the frontend is: "init" once Demuxer() has returned,
                      \* "loop" after a readiness check that passed, "exit"
                      \* after one that failed
    scenario,         \* the run: what is transmitted, and on which channel
    stopCall,         \* the call of stop(), once made: who made it, and what the
                      \* worker had done by then
    link,             \* the frames still to be transmitted, next one first
    start,            \* the VCDU counter of the first frame transmitted
    cursor,           \* frames transmitted so far
    drops             \* frames of it lost before the demuxer

vars == << rxq, coreReady, coreStop, channelHandlers, vcduCounter, lastVCID,
           dumpPath, keys, spdus, dumpFile, pc, packet, files, skips, checks, finished,
           handled, dispatched, pushed, pulled, stopCall, frontend, scenario, link,
           start, cursor, drops >>

envVars == << frontend, scenario, link, start, cursor, drops >>
coreVars == << channelHandlers, vcduCounter, lastVCID, dumpFile, spdus, files, skips,
               checks, finished, handled, dispatched >>

\* Demuxer.__init__, up to the start of the core thread.
Init ==
    /\ rxq = <<>>
    /\ coreReady = FALSE
    /\ coreStop = FALSE
    /\ channelHandlers = <<>>
    /\ vcduCounter = NO_COUNTER
    /\ lastVCID = NO_VCID
    /\ dumpPath \in BOOLEAN
    /\ keys = NoKeys
    /\ spdus = <<>>
    /\ dumpFile = [open |-> FALSE, content |-> <<>>]
    /\ pc = "start"
    /\ packet = <<>>
    /\ files = <<>>
    /\ skips = <<>>
    /\ checks = <<>>
    /\ finished = <<>>
    /\ handled = <<>>
    /\ dispatched = <<>>
    /\ pushed = <<>>
    /\ pulled = <<>>
    /\ stopCall = <<>>
    /\ frontend = "init"
    /\ \E run \in {Scenarios[i] : i \in 1..Len(Scenarios)} :
           /\ scenario = [name |-> run.name, vcid |-> run.vcid, cps |-> run.cps]
           /\ link = run.frames
    /\ start \in StartCounters
    /\ cursor = 0
    /\ drops = 0

\* The demuxer given a key table or none, and a file with a key header.
SpduInit ==
    /\ rxq = <<>>
    /\ coreReady = FALSE
    /\ coreStop = FALSE
    /\ channelHandlers = <<>>
    /\ vcduCounter = NO_COUNTER
    /\ lastVCID = NO_VCID
    /\ dumpPath = FALSE
    /\ keys \in {NoKeys, KeyTable}
    /\ spdus = <<>>
    /\ dumpFile = [open |-> FALSE, content |-> <<>>]
    /\ pc = "start"
    /\ packet = <<>>
    /\ files = <<>>
    /\ skips = <<>>
    /\ checks = <<>>
    /\ finished = <<>>
    /\ handled = <<>>
    /\ dispatched = <<>>
    /\ pushed = <<>>
    /\ pulled = <<>>
    /\ stopCall = <<>>
    /\ frontend = "init"
    /\ \E run \in SpduScenarios :
           /\ scenario = [name |-> run.name, vcid |-> run.vcid, cps |-> run.cps]
           /\ link = run.frames
    /\ start = 0
    /\ cursor = 0
    /\ drops = 0

(* ------------------------------ demuxer ------------------------------- *)

\* Demuxer.continuity: the new vcduCounter and what is printed.
continuity(last, current) ==
    IF last # NO_COUNTER /\ last = COUNTER_MAX /\ current = 0
    THEN [counter |-> current, report |-> <<>>]
    ELSE IF last # NO_COUNTER /\ current - last - 1 # 0
    THEN [counter |-> current, report |-> <<current - last - 1>>]
    ELSE [counter |-> current, report |-> <<>>]

\* Demuxer.push
push(q, frame) == Append(q, frame)

\* A mutant of pull: the newest frame is returned (pop instead of popleft).
pull_newest(q) == [frame |-> q[Len(q)], rest |-> SubSeq(q, 1, Len(q) - 1)]

\* Demuxer.pull on a queue that is not empty: the frame returned and the
\* queue left.
pull(q) == [frame |-> Head(q), rest |-> Tail(q)]

\* Demuxer.complete
complete(q) == Len(q) = 0

\* Lines 50-59 of demux_core: the core thread starts.
CoreStart ==
    /\ pc = "start"
    /\ coreReady' = TRUE
    /\ dumpFile' = [open |-> dumpPath, content |-> <<>>]
    /\ pc' = "loop"
    /\ UNCHANGED << rxq, coreStop, channelHandlers, vcduCounter, lastVCID, dumpPath, keys,
                    packet, pushed, pulled, stopCall, files, skips, checks, finished,
                    handled, spdus, dispatched, envVars >>

\* Line 62 of demux_core: the loop test finds the stop flag clear.
CoreTest ==
    /\ pc = "loop"
    /\ ~coreStop
    /\ pc' = "pull"
    /\ UNCHANGED << rxq, coreReady, coreStop, packet, dumpPath, keys, pushed, pulled,
                    stopCall, coreVars, envVars >>

\* Lines 64-67 and 104-106 of demux_core: pull(); with a frame the worker
\* goes on to process it, with None it sleeps and tests the flag again.
CorePull ==
    /\ pc = "pull"
    /\ IF rxq = <<>>
       THEN /\ pc' = "loop"
            /\ UNCHANGED << rxq, packet, pulled >>
       ELSE /\ packet' = <<pull(rxq).frame>>
            /\ rxq' = pull(rxq).rest
            /\ pulled' = Append(pulled, pull(rxq).frame)
            /\ pc' = "have"
    /\ UNCHANGED << coreReady, coreStop, dumpPath, keys, pushed, stopCall, coreVars, envVars >>

\* A mutant of ChannelOf: the frame goes to a handler made anew.
ChannelOf_fresh(v) == Channel_init

\* A mutant of ChannelOf: the frame goes to the handler that took the frame
\* before it.
ChannelOf_previous(v) ==
    IF lastVCID \in DOMAIN channelHandlers THEN channelHandlers[lastVCID] ELSE Channel_init

\* The handler of a VCID: the one in the map, or a new one (lines 94-99).
ChannelOf(v) ==
    IF v \in DOMAIN channelHandlers THEN channelHandlers[v] ELSE Channel_init

FinishedOf(v) == IF v \in DOMAIN finished THEN finished[v] ELSE <<>>
HandledOf(v) == IF v \in DOMAIN handled THEN handled[v] ELSE <<>>

\* Lines 93-102 of demux_core: the frame goes to the handler of its VCID,
\* which is created first when there is none.
Dispatch(vcdu) ==
    \E w \in {data_in(WorkOf(ChannelOf(vcdu.VCID), files, FinishedOf(vcdu.VCID),
                             HandledOf(vcdu.VCID), skips, keys, spdus),
                      vcdu, CCITT_LUT)} :
        /\ channelHandlers' =
               [v \in DOMAIN channelHandlers \cup {vcdu.VCID} |->
                   IF v = vcdu.VCID
                   THEN [cCPPDU |-> w.cCPPDU, cTPFile |-> w.cTPFile]
                   ELSE channelHandlers[v]]
        /\ finished' =
               [v \in DOMAIN finished \cup {vcdu.VCID} |->
                   IF v = vcdu.VCID THEN w.finished ELSE finished[v]]
        /\ handled' =
               [v \in DOMAIN handled \cup {vcdu.VCID} |->
                   IF v = vcdu.VCID THEN w.handled ELSE handled[v]]
        /\ files' = w.files
        /\ skips' = w.skips
        /\ spdus' = w.spdus
        /\ dispatched' = Append(dispatched, packet[1])
        /\ pc' = IF w.status = "ok" THEN "loop" ELSE w.status

\* The call of continuity() at line 81, as recorded in checks: the frame's
\* VCID and counter, the counter stored before and after the call, and what
\* the call printed.
Check(vcdu, cont) ==
    [ VCID |-> vcdu.VCID, COUNTER |-> vcdu.COUNTER, last |-> vcduCounter,
      stored |-> cont.counter, report |-> cont.report ]

\* A mutant of Supported: the fill check is missing.
Supported_nofill(vcdu) ==
    \E cont \in {continuity(vcduCounter, vcdu.COUNTER)} :
        /\ vcduCounter' = cont.counter
        /\ checks' = Append(checks, Check(vcdu, cont))
        /\ lastVCID' = vcdu.VCID
        /\ Dispatch(vcdu)

\* A mutant of Supported: fill frames are discarded before the continuity
\* check.
Supported_fillfirst(vcdu) ==
    IF vcdu.VCID = FILL_VCID
    THEN /\ pc' = "loop"
         /\ UNCHANGED << channelHandlers, vcduCounter, lastVCID, files, skips,
                         checks, finished, handled, spdus, dispatched >>
    ELSE \E cont \in {continuity(vcduCounter, vcdu.COUNTER)} :
             /\ vcduCounter' = cont.counter
             /\ checks' = Append(checks, Check(vcdu, cont))
             /\ lastVCID' = vcdu.VCID
             /\ Dispatch(vcdu)

\* Lines 80-102 of demux_core: a frame of the supported spacecraft.
Supported(vcdu) ==
    \E cont \in {continuity(vcduCounter, vcdu.COUNTER)} :
        /\ vcduCounter' = cont.counter
        /\ checks' = Append(checks, Check(vcdu, cont))
        /\ lastVCID' = vcdu.VCID
        /\ IF vcdu.VCID = FILL_VCID
           THEN /\ pc' = "loop"
                /\ UNCHANGED << channelHandlers, files, skips, finished, handled, spdus,
                                dispatched >>
           ELSE Dispatch(vcdu)

\* A mutant of CoreProcess: the spacecraft check is missing.
CoreProcess_anySC ==
    /\ pc = "have"
    /\ \E vcdu \in {VCDU(packet[1])} :
           /\ dumpFile' = IF dumpFile.open /\ vcdu.VCID # FILL_VCID
                          THEN [dumpFile EXCEPT !.content = Append(@, packet[1])]
                          ELSE dumpFile
           /\ Supported(vcdu)
    /\ packet' = <<>>
    /\ UNCHANGED << rxq, coreReady, coreStop, dumpPath, keys, pushed, pulled, stopCall,
                    envVars >>

\* A mutant of CoreProcess: the frame is written to the dump file after the
\* spacecraft check, so only frames of the supported spacecraft are.
CoreProcess_dumpSupported ==
    /\ pc = "have"
    /\ \E vcdu \in {VCDU(packet[1])} :
           /\ dumpFile' = IF /\ dumpFile.open
                             /\ vcdu.VCID # FILL_VCID
                             /\ get_SC(vcdu.SCID) = "COMS-1"
                          THEN [dumpFile EXCEPT !.content = Append(@, packet[1])]
                          ELSE dumpFile
           /\ IF get_SC(vcdu.SCID) # "COMS-1"
              THEN /\ pc' = "loop"
                   /\ UNCHANGED << channelHandlers, vcduCounter, lastVCID, files,
                                   skips, checks, finished, handled, spdus, dispatched >>
              ELSE Supported(vcdu)
    /\ packet' = <<>>
    /\ UNCHANGED << rxq, coreReady, coreStop, dumpPath, keys, pushed, pulled, stopCall,
                    envVars >>

\* Lines 69-102 of demux_core: one frame, from parsing to Channel.data_in.
CoreProcess ==
    /\ pc = "have"
    /\ \E vcdu \in {VCDU(packet[1])} :
           /\ dumpFile' = IF dumpFile.open /\ vcdu.VCID # FILL_VCID
                          THEN [dumpFile EXCEPT !.content = Append(@, packet[1])]
                          ELSE dumpFile
           /\ IF get_SC(vcdu.SCID) # "COMS-1"
              THEN /\ pc' = "loop"
                   /\ UNCHANGED << channelHandlers, vcduCounter, lastVCID, files,
                                   skips, checks, finished, handled, spdus, dispatched >>
              ELSE Supported(vcdu)
    /\ packet' = <<>>
    /\ UNCHANGED << rxq, coreReady, coreStop, dumpPath, keys, pushed, pulled, stopCall,
                    envVars >>

\* A mutant of CoreExit: the worker leaves as soon as the flag is set, with
\* a frame in hand or not.
CoreExit_anywhere ==
    /\ pc \in {"loop", "pull", "have"}
    /\ coreStop
    /\ dumpFile' = [dumpFile EXCEPT !.open = FALSE]
    /\ pc' = "done"
    /\ UNCHANGED << rxq, coreReady, coreStop, channelHandlers, vcduCounter, lastVCID,
                    dumpPath, keys, packet, pushed, pulled, stopCall, files, skips, checks,
                    finished, handled, spdus, dispatched, envVars >>

\* Lines 62 and 108-113 of demux_core: the loop test sees the stop flag.
CoreExit ==
    /\ pc = "loop"
    /\ coreStop
    /\ dumpFile' = [dumpFile EXCEPT !.open = FALSE]
    /\ pc' = "done"
    /\ UNCHANGED << rxq, coreReady, coreStop, channelHandlers, vcduCounter, lastVCID,
                    dumpPath, keys, packet, pushed, pulled, stopCall, files, skips, checks,
                    finished, handled, spdus, dispatched, envVars >>

\* The frames the worker has pulled and is done with.
Processed == IF packet = <<>> THEN pulled ELSE SubSeq(pulled, 1, Len(pulled) - 1)

\* Demuxer.stop: the flag is set.  The call is recorded with its caller and
\* with what the worker had done when it was made.
stop(by) ==
    /\ coreStop' = TRUE
    /\ stopCall' = << [ by |-> by, processed |-> Len(Processed), files |-> Len(files),
                        rxq |-> rxq ] >>

(* ------------------------------ frontend ------------------------------ *)

NextFrame == EncVCDU(Head(link), (start + cursor) % (COUNTER_MAX + 1))

\* Lines 51-53 of xrit-demux.py: right after Demuxer() has returned the
\* frontend reads coreReady, and exits when it is not set.  The core thread,
\* started as the constructor's last statement, sets it as its own first one:
\* nothing orders the two.
ReadyCheck ==
    /\ frontend = "init"
    /\ frontend' = IF coreReady THEN "loop" ELSE "exit"
    /\ UNCHANGED << rxq, coreReady, coreStop, pc, packet, dumpPath, keys, pushed, pulled,
                    coreVars, stopCall, scenario, link, start, cursor, drops >>

\* The frontend receives the next frame and pushes it.
Push ==
    /\ frontend = "loop"
    /\ ~coreStop
    /\ link # <<>>
    /\ Len(rxq) < MaxQueue
    /\ rxq' = push(rxq, NextFrame)
    /\ pushed' = Append(pushed, NextFrame)
    /\ link' = Tail(link)
    /\ cursor' = cursor + 1
    /\ UNCHANGED << coreReady, coreStop, pc, packet, dumpPath, keys, pulled, coreVars,
                    stopCall, frontend, scenario, start, drops >>

\* The next frame is lost on the link: the frontend, reading the link, does
\* not get it.
Drop ==
    /\ frontend = "loop"
    /\ ~coreStop
    /\ link # <<>>
    /\ drops < MaxDrops
    /\ link' = Tail(link)
    /\ cursor' = cursor + 1
    /\ drops' = drops + 1
    /\ UNCHANGED << rxq, coreReady, coreStop, pc, packet, dumpPath, keys, pushed, pulled,
                    coreVars, stopCall, frontend, scenario, start >>

\* The frontend is interrupted (KeyboardInterrupt) and calls stop(); it
\* pushes nothing more.
Stop ==
    /\ frontend = "loop"
    /\ ~coreStop
    /\ stop("interrupt")
    /\ UNCHANGED << rxq, coreReady, pc, packet, dumpPath, keys, pushed, pulled, coreVars,
                    envVars >>

\* The FILE frontend, its input read to the end, finds complete() true and
\* calls stop().
FileStop ==
    /\ frontend = "loop"
    /\ ~coreStop
    /\ link = <<>>
    /\ complete(rxq)
    /\ stop("complete")
    /\ UNCHANGED << rxq, coreReady, pc, packet, dumpPath, keys, pushed, pulled, coreVars,
                    envVars >>

Next ==
    \/ CoreStart
    \/ CoreTest
    \/ CorePull
    \/ CoreProcess
    \/ CoreExit
    \/ Stop
    \/ FileStop
    \/ ReadyCheck
    \/ Push
    \/ Drop

Spec == Init /\ [][Next]_vars

\* The same program, given a key table or none and files with key headers.
SpduSpec == SpduInit /\ [][Next]_vars

\* The worker thread keeps running: each of its steps is taken when it can be.
\* CoreProcess is enabled exactly when pc = "have" and always leaves it, so
\* weak fairness of CoreProcess is the last conjunct.
LiveSpec ==
    /\ Spec
    /\ WF_vars(CoreStart)
    /\ WF_vars(CoreTest)
    /\ WF_vars(CorePull)
    /\ WF_vars(CoreExit)
    /\ []<>(pc # "have")

(* ----------------------------- properties ----------------------------- *)

IsSupported(frame) == get_SC(VCDU(frame).SCID) = "COMS-1"
IsFill(frame) == VCDU(frame).VCID = FILL_VCID
IsForChannel(frame) == IsSupported(frame) /\ ~IsFill(frame)

\* The payloads, CRC trailers removed, of the CP_PDUs of a log, end to end.
RECURSIVE Handed(_)
Handed(log) ==
    IF log = <<>> THEN <<>> ELSE DropLast2(Head(log).PAYLOAD) \o Handed(Tail(log))

\* The data of the CP_PDUs of a stream, end to end; the EOF marker has none.
RECURSIVE Packetised(_)
Packetised(cps) ==
    IF cps = <<>> THEN <<>>
    ELSE IF Head(cps) = EncEOF THEN Packetised(Tail(cps))
    ELSE SubSeq(Head(cps), 7, Len(Head(cps)) - 2) \o Packetised(Tail(cps))

\* The run was one whole stream, none of its frames was lost, and the worker
\* has processed all of them.
StreamDone ==
    /\ scenario.cps # <<>>
    /\ drops = 0
    /\ link = <<>>
    /\ rxq = <<>>
    /\ packet = <<>>

\* C1: once every frame of a stream whose first header pointers mark the
\* CP_PDU boundaries (pointer 0 included) has been processed, the payloads of
\* the CP_PDUs handed to handle_CPPDU on the stream's channel, each without
\* its CRC trailer, make up the data that was packetised: none is lost,
\* duplicated or altered.
C1_NoCpPduLost ==
    StreamDone => Handed(HandledOf(scenario.vcid)) = Packetised(scenario.cps)

\* C2: frames are processed in enqueue order: what pull() has returned,
\* followed by what is still queued, is what was pushed, in that order; the
\* frame in hand is the last one pulled; and the frames dispatched to channel
\* handlers are the processed frames meant for a channel, in that order.
C2_EnqueueOrder ==
    /\ pulled \o rxq = pushed
    /\ packet = IF pc = "have" THEN <<pulled[Len(pulled)]>> ELSE <<>>
    /\ dispatched = SelectSeq(Processed, IsForChannel)

\* C2's case: frames were pushed while the worker held one, and a frame has
\* already been dispatched.
C2_Interleaved ==
    /\ pc = "have"
    /\ Len(rxq) >= 2
    /\ dispatched # <<>>

\* C3: a finished SINGLE CP_PDU handed to handle_CPPDU is treated as FIRST
\* followed by LAST: when its payload without the CRC is a TP_File of the
\* declared length, an xRIT file with that payload has been emitted.
C3_SingleAsFirstLast ==
    \A v \in DOMAIN handled : \A i \in 1..Len(handled[v]) :
        handled[v][i].SEQ = "SINGLE" =>
            LET fin == TP_finish(TP_File(DropLast2(handled[v][i].PAYLOAD), "SINGLE"), <<>>)
            IN  fin.lenok =>
                    \E k \in 1..Len(files) : files[k].data = fin.tpfile.PAYLOAD

\* C4: in scenario S1 (one frame with pointer 0 carrying one complete SINGLE
\* CP_PDU with a valid CRC), once that frame has been dispatched exactly one
\* xRIT file has been written, whatever follows.
C4_S1WritesOneFile ==
    (scenario.name = "S1" /\ dispatched # <<>>) => Len(files) = 1

\* What claim C5 expects continuity() to print for last = L, current = C.
ExpectedReport(L, C) ==
    IF (C - L - 1) % (COUNTER_MAX + 1) = 0 THEN <<>>
    ELSE <<(C - L - 1) % (COUNTER_MAX + 1)>>

\* C5: every continuity check with a stored counter L and a frame counter C
\* prints nothing for the wrap (L = 2^24 - 1, C = 0) and for C = L + 1, prints
\* (C - L - 1) mod 2^24 dropped packets for every other pair, and stores C.
C5_DropsModulo ==
    \A i \in 1..Len(checks) :
        checks[i].last # NO_COUNTER =>
            /\ checks[i].report = ExpectedReport(checks[i].last, checks[i].COUNTER)
            /\ checks[i].stored = checks[i].COUNTER

\* C6: no fill frame (VCID 63) has created a channel handler, been dispatched
\* to a handler, or been written to the dump file.
C6_FillNeverHandled ==
    /\ FILL_VCID \notin DOMAIN channelHandlers
    /\ \A i \in 1..Len(dispatched) : ~IsFill(dispatched[i])
    /\ \A i \in 1..Len(dumpFile.content) : ~IsFill(dumpFile.content[i])

\* C6's case: with the dump file open and written to, the worker has
\* processed a fill frame of the supported spacecraft.
C6_FillProcessed ==
    /\ dumpFile.open
    /\ dumpFile.content # <<>>
    /\ \E i \in 1..Len(Processed) : IsSupported(Processed[i]) /\ IsFill(Processed[i])

IsFillCheck(check) == check.VCID = FILL_VCID
IsSupportedFill(frame) == IsSupported(frame) /\ IsFill(frame)

\* C7: every processed fill frame of the supported spacecraft went through
\* the continuity check; the check of a fill frame with counter C stores C,
\* which stays stored until the next check, and a frame with counter C + 1
\* checked next reports no drop.
C7_FillAdvancesCounter ==
    /\ Len(SelectSeq(checks, IsFillCheck)) = Len(SelectSeq(Processed, IsSupportedFill))
    /\ \A i \in 1..Len(checks) :
           checks[i].VCID = FILL_VCID =>
               /\ checks[i].stored = checks[i].COUNTER
               /\ i = Len(checks) => vcduCounter = checks[i].COUNTER
               /\ i < Len(checks) =>
                      /\ checks[i + 1].last = checks[i].COUNTER
                      /\ checks[i + 1].COUNTER = (checks[i].COUNTER + 1) % (COUNTER_MAX + 1)
                             => checks[i + 1].report = <<>>

\* C7's case: a fill frame with counter C was checked, and the next frame
\* checked was a real one with counter C + 1.
C7_RealAfterFill ==
    \E i \in 1..Len(checks) - 1 :
        /\ checks[i].VCID = FILL_VCID
        /\ checks[i + 1].VCID # FILL_VCID
        /\ checks[i + 1].COUNTER = (checks[i].COUNTER + 1) % (COUNTER_MAX + 1)

\* C8: whenever a channel holds a current TP_File, a FIRST CP_PDU opened it
\* and no LAST CP_PDU has closed it yet.
C8_TpFileOpen ==
    \A v \in DOMAIN channelHandlers :
        channelHandlers[v].cTPFile # <<>> =>
            /\ channelHandlers[v].cTPFile[1].openedBy = "FIRST"
            /\ ~channelHandlers[v].cTPFile[1].finished

\* The calls of handle_CPPDU with a LAST CP_PDU on a channel that held a
\* TP_File: the calls that finish a TP_File.
IsClosing(entry) == entry.SEQ = "LAST" /\ entry.tpfile

RECURSIVE SumOver(_, _)
SumOver(S, f) ==
    IF S = {} THEN 0
    ELSE LET x == CHOOSE y \in S : TRUE IN f[x] + SumOver(S \ {x}, f)

Closings ==
    SumOver(DOMAIN handled, [v \in DOMAIN handled |-> Len(SelectSeq(handled[v], IsClosing))])

\* C9: every xRIT file emitted was emitted when a LAST CP_PDU finished a
\* TP_File whose payload had the length its header declares; every skip was
\* reported for a TP_File whose payload had another length; and every LAST
\* that finished a TP_File led to exactly one of the two (or to the worker
\* stuck in xRIT.parse or dead in xRIT.save, with nothing written).
C9_EmitOnlyOnLength ==
    /\ \A i \in 1..Len(files) :
           files[i].by = "LAST" /\ Len(files[i].data) = files[i].LENGTH
    /\ \A i \in 1..Len(skips) : skips[i].actual # skips[i].LENGTH
    /\ Len(files) + Len(skips) + (IF pc \in {"hung", "raised"} THEN 1 ELSE 0) = Closings

\* C9's case: a LAST CP_PDU has finished a TP_File of the declared length and
\* the file was emitted.
C9_Emitted ==
    /\ files # <<>>
    /\ Closings >= 1

\* C10: every CP_PDU finish() was called on has been handed to handle_CPPDU,
\* in the same order and with the same sequence flag and payload, whatever
\* the length and CRC checks said.
C10_ForwardedRegardless ==
    /\ DOMAIN handled = DOMAIN finished
    /\ \A v \in DOMAIN finished :
           /\ Len(handled[v]) = Len(finished[v])
           /\ \A i \in 1..Len(finished[v]) :
                  /\ handled[v][i].SEQ = finished[v][i].SEQ
                  /\ handled[v][i].PAYLOAD = finished[v][i].PAYLOAD

\* C10's case: a CP_PDU whose CRC check failed has been finished and handed
\* over.
C10_FailedForwarded ==
    \E v \in DOMAIN finished : \E i \in 1..Len(finished[v]) :
        /\ ~finished[v][i].crcok
        /\ i <= Len(handled[v])

\* The frames dispatched to the handler of a VCID, in order.
DispatchedTo(v) == SelectSeq(dispatched, LAMBDA frame : VCDU(frame).VCID = v)

\* The CP_PDU that a frame's first header pointer marks is the EOF marker.
OpensEof(frame) ==
    LET mpdu == M_PDU(VCDU(frame).MPDU)
    IN  mpdu.HEADER /\ is_EOF(CP_PDU(SliceFrom(mpdu.PACKET, mpdu.POINTER)))

\* C11: the EOF marker is discarded: after a frame that opened it the channel
\* holds no CP_PDU; no CP_PDU handed to handle_CPPDU is the EOF marker (so it
\* leads to no file and no error); and when the CP_PDU handed over last is a
\* FIRST one, the channel's TP_File is a new one holding that CP_PDU's data
\* only (its payload without the TP_File header and the CRC).
C11_EofDiscarded ==
    /\ \A v \in DOMAIN handled : \A i \in 1..Len(handled[v]) : ~is_EOF(handled[v][i])
    /\ pc \notin {"hung", "raised"} =>
           \A v \in DOMAIN channelHandlers :
               OpensEof(DispatchedTo(v)[Len(DispatchedTo(v))]) =>
                   channelHandlers[v].cCPPDU = <<>>
    /\ \A v \in DOMAIN handled :
           (handled[v] # <<>> /\ handled[v][Len(handled[v])].SEQ = "FIRST") =>
               /\ channelHandlers[v].cTPFile # <<>>
               /\ ~channelHandlers[v].cTPFile[1].finished
               /\ channelHandlers[v].cTPFile[1].PAYLOAD =
                      SliceFrom(DropLast2(handled[v][Len(handled[v])].PAYLOAD), 10)

\* C11's case: a first file was written, a frame opened the EOF marker after
\* it, and the FIRST CP_PDU of a second file on the same VCID has been handed
\* over.
C11_FirstAfterEof ==
    \E v \in DOMAIN handled :
        /\ Len(files) = 1
        /\ Len(handled[v]) = 3
        /\ handled[v][2].SEQ = "LAST"
        /\ handled[v][3].SEQ = "FIRST"
        /\ \E i \in 1..Len(DispatchedTo(v)) : OpensEof(DispatchedTo(v)[i])


\* C12: once stop() has set the stop flag, the worker eventually leaves its
\* loop, having processed at most one frame more, with the dump file closed
\* and no file written after the call.
C12_StopExits ==
    (stopCall # <<>>) ~>
        /\ pc = "done"
        /\ ~dumpFile.open
        /\ Len(Processed) <= stopCall[1].processed + 1
        /\ Len(files) <= stopCall[1].files + 1


\* stop() was called by the FILE frontend, after the end of its input and
\* after complete() returned True.
FileStopped == stopCall # <<>> /\ stopCall[1].by = "complete"

\* C13: in FILE mode, when stop() is called every pushed frame has been
\* dequeued, and the worker exits only after it has processed them all; the
\* frame in hand when the queue was found empty is not lost.
C13_FileCompletion ==
    FileStopped =>
        /\ rxq = <<>>
        /\ pulled = pushed
        /\ (pc = "done") =>
               /\ Processed = pushed
               /\ dispatched = SelectSeq(pushed, IsForChannel)

C13_StoppedWhileHandling ==
    /\ FileStopped
    /\ pc = "done"
    /\ pushed # <<>>
    /\ stopCall[1].processed < Len(pushed)
    /\ Processed = pushed


\* The worker holds a frame of another spacecraft.
HoldsForeign == packet # <<>> /\ ~IsSupported(packet[1])

\* C14: the step that processes a frame of another spacecraft leaves the
\* continuity counter, the last VCID, the channel map with every channel's
\* CP_PDU and TP_File, and the files written as they were, checks nothing and
\* dispatches nothing; the worker goes back to its loop.
C14_ForeignNoEffect ==
    [][ (HoldsForeign /\ packet' = <<>>) =>
            /\ pc' = "loop"
            /\ UNCHANGED << vcduCounter, lastVCID, channelHandlers, files, skips,
                            checks, finished, handled, spdus, dispatched >> ]_vars

C14_ForeignProcessed ==
    /\ \E i \in 1..Len(Processed) :
           /\ ~IsSupported(Processed[i])
           /\ i < Len(Processed)
           /\ IsForChannel(Processed[i + 1])
    /\ \A i \in 1..Len(dispatched) : IsSupported(dispatched[i])
    /\ Len(files) > 0


NotFill(frame) == ~IsFill(frame)

\* C15: with a dump path configured, the dump file holds the frames the
\* worker has dequeued and processed whose VCID is not 63, each once and
\* unmodified, in the order of dequeuing, whatever became of them afterwards;
\* with no dump path nothing is written.
C15_DumpExact ==
    dumpFile.content = IF dumpPath THEN SelectSeq(Processed, NotFill) ELSE <<>>

C15_DumpedAll ==
    /\ dumpPath
    /\ pc = "done"
    /\ \E i \in 1..Len(dumpFile.content) : ~IsSupported(dumpFile.content[i])
    /\ \E i \in 1..Len(dumpFile.content) : IsForChannel(dumpFile.content[i])
    /\ \E i \in 1..Len(Processed) : IsFill(Processed[i])
    /\ Len(dumpFile.content) = 4


\* The files that carry a given key index.
FilesKeyed(index) == {FileKeyed(index, n) : n \in 1..MaxData}

\* C16: an S_PDU built with an empty key table, or from a file whose key
\* header carries index 0x0000 with a key table that has no such index, has
\* its input as PLAINTEXT, bit for bit, nothing appended.
C16_PlainPassThrough ==
    \A i \in 1..Len(spdus) :
        (keys = NoKeys \/ (PlainIndex \notin DOMAIN keys /\ spdus[i].data \in FilesKeyed(PlainIndex)))
            => /\ spdus[i].spdu.status = "ok"
               /\ spdus[i].spdu.PLAINTEXT = spdus[i].data

C16_PlainWithTable ==
    /\ keys = KeyTable
    /\ Len(files) = 1
    /\ Len(spdus) = 1
    /\ spdus[1].data = FileKeyed(PlainIndex, 3)
    /\ spdus[1].spdu.parsed[1].dataField # spdus[1].spdu.parsed[1].field
    /\ files[1].data = FileKeyed(PlainIndex, 3)

\* C17: an S_PDU built from a file whose key index is not 0x0000 and not in
\* the key table reports the unknown index, uses no key, and has its input
\* as PLAINTEXT; the file is saved as it came.
C17_UnknownIndexPlain ==
    \A i \in 1..Len(spdus) :
        (keys # NoKeys /\ UnknownIndex \notin DOMAIN keys
             /\ spdus[i].data \in FilesKeyed(UnknownIndex))
            => /\ spdus[i].spdu.status = "ok"
               /\ spdus[i].spdu.parsed[1].unknown
               /\ spdus[i].spdu.parsed[1].key = <<>>
               /\ spdus[i].spdu.PLAINTEXT = spdus[i].data
               /\ \E k \in 1..Len(files) : files[k].data = spdus[i].data

C17_UnknownSaved ==
    /\ keys = KeyTable
    /\ Len(files) = 1
    /\ Len(spdus) = 1
    /\ spdus[1].data = FileKeyed(UnknownIndex, 5)
    /\ spdus[1].spdu.parsed[1].index = UnknownIndex
    /\ files[1].data = FileKeyed(UnknownIndex, 5)

\* The smallest multiple of 8 that is at least n.
BlockCeil(n) == ((n + 7) \div 8) * 8

\* C18: whenever S_PDU.parse has run, the padded data field is the data
\* field followed by zero bytes up to the next multiple of 8.
C18_PadToBlock ==
    \A i \in 1..Len(spdus) :
        spdus[i].spdu.parsed # <<>> =>
            LET p == spdus[i].spdu.parsed[1]
            IN  p.dataField = p.field \o Fill(0, BlockCeil(Len(p.field)) - Len(p.field))


\* The CP_PDU header fields that tell one CP_PDU of a stream from another.
SameCpPdu(a, b) == a.APID = b.APID /\ a.SEQ = b.SEQ /\ a.COUNTER = b.COUNTER

\* The worker holds a frame for channel v with a first header pointer other
\* than 0, and channel v has a current CP_PDU.
ClosesCurrent(v) ==
    /\ packet # <<>>
    /\ IsForChannel(packet[1])
    /\ VCDU(packet[1]).VCID = v
    /\ M_PDU(VCDU(packet[1]).MPDU).HEADER
    /\ M_PDU(VCDU(packet[1]).MPDU).POINTER # 0
    /\ v \in DOMAIN channelHandlers
    /\ channelHandlers[v].cCPPDU # <<>>

\* What processing such a frame does on channel v: the current CP_PDU, with
\* the zone up to the pointer appended, is the next one handed to
\* handle_CPPDU; the CP_PDU opened from the zone after the pointer becomes
\* the current one (none when it is the EOF marker), and is handed over after
\* it in the same step or not yet.
ClosedThenOpened(v) ==
    LET mpdu == M_PDU(VCDU(packet[1]).MPDU)
        old  == channelHandlers[v].cCPPDU[1]
        new  == CP_PDU(SliceFrom(mpdu.PACKET, mpdu.POINTER))
        n    == Len(handled[v])
    IN  /\ Len(handled'[v]) > n
        /\ SubSeq(handled'[v], 1, n) = handled[v]
        /\ SameCpPdu(handled'[v][n + 1], old)
        /\ handled'[v][n + 1].PAYLOAD = old.PAYLOAD \o Slice(mpdu.PACKET, 0, mpdu.POINTER)
        /\ pc' = "loop" =>
               /\ IF is_EOF(new) THEN channelHandlers'[v].cCPPDU = <<>>
                  ELSE SameCpPdu(channelHandlers'[v].cCPPDU[1], new)
               /\ Len(handled'[v]) <= n + 2
               /\ Len(handled'[v]) = n + 2 => SameCpPdu(handled'[v][n + 2], new)

\* C19: on a frame with a first header pointer other than 0 the current
\* CP_PDU is finished with the zone before the pointer and handed on before
\* the new one is opened from the zone after it; no CP_PDU of a channel is
\* handed on before one with a smaller sequence counter, the streams
\* numbering their CP_PDUs in the order in which they send the headers.
C19_ArrivalOrder ==
    /\ [][ \A v \in DOMAIN channelHandlers :
               (ClosesCurrent(v) /\ packet' = <<>>) => ClosedThenOpened(v) ]_vars
    /\ [](\A v \in DOMAIN handled :
              \A i, j \in 1..Len(handled[v]) :
                  i < j => handled[v][i].COUNTER <= handled[v][j].COUNTER)

C19_ThreeInOrder ==
    /\ scenario.name = "clean"
    /\ 0 \in DOMAIN handled
    /\ Len(handled[0]) = 3
    /\ handled[0][1].SEQ = "FIRST"
    /\ handled[0][2].SEQ = "CONTINUE"
    /\ handled[0][3].SEQ = "LAST"
    /\ Len(files) = 1


\* The CP_PDU that the frame in the worker's hands opens after its pointer.
Opened == CP_PDU(SliceFrom(M_PDU(VCDU(packet[1]).MPDU).PACKET,
                           M_PDU(VCDU(packet[1]).MPDU).POINTER))

\* The worker holds a frame for channel v with a first header pointer other
\* than 0 that opens a CP_PDU shorter than the rest of the zone: declared
\* length between 1 and the zone length plus 2 (886 for the 884-byte zone),
\* payload longer than declared.
OpensShort(v) ==
    /\ packet # <<>>
    /\ IsForChannel(packet[1])
    /\ VCDU(packet[1]).VCID = v
    /\ M_PDU(VCDU(packet[1]).MPDU).HEADER
    /\ M_PDU(VCDU(packet[1]).MPDU).POINTER # 0
    /\ 1 < Opened.LENGTH
    /\ Opened.LENGTH < ZoneLen + 2
    /\ Len(Opened.PAYLOAD) > Opened.LENGTH

\* C20: when the processing of such a frame opens the short CP_PDU, that
\* CP_PDU, cut to its declared length, is the last one finished, with the
\* length check passed, and the last one handed on, in the same step.
C20_ShortHandedAtOnce ==
    [][ \A v \in DOMAIN channelHandlers' :
            ( /\ OpensShort(v)
              /\ packet' = <<>>
              /\ channelHandlers'[v].cCPPDU # <<>>
              /\ SameCpPdu(channelHandlers'[v].cCPPDU[1], Opened) )
            => LET trimmed == Slice(Opened.PAYLOAD, 0, Opened.LENGTH)
                   fin     == finished'[v][Len(finished'[v])]
                   han     == handled'[v][Len(handled'[v])]
               IN  /\ Len(trimmed) = Opened.LENGTH
                   /\ channelHandlers'[v].cCPPDU[1].PAYLOAD = trimmed
                   /\ fin.PAYLOAD = trimmed
                   /\ fin.lenok
                   /\ SameCpPdu(han, Opened)
                   /\ han.PAYLOAD = trimmed
                   /\ Len(handled'[v]) > Len(HandledOf(v)) ]_vars

C20_ShortLastSaved ==
    /\ scenario.name = "short"
    /\ Len(dispatched) = 2
    /\ 1 \in DOMAIN handled
    /\ Len(handled[1]) = 2
    /\ handled[1][2].SEQ = "LAST"
    /\ Len(handled[1][2].PAYLOAD) = handled[1][2].LENGTH
    /\ finished[1][2].lenok
    /\ Len(files) = 1


\* The worker holds a frame for channel v whose M_PDU has no CP_PDU header.
HoldsHeaderless(v) ==
    /\ packet # <<>>
    /\ IsForChannel(packet[1])
    /\ VCDU(packet[1]).VCID = v
    /\ ~M_PDU(VCDU(packet[1]).MPDU).HEADER

\* C21: processing a frame without a CP_PDU header leaves a channel with no
\* current CP_PDU as it is, and appends the whole packet zone to the current
\* CP_PDU of a channel that has one; the TP_File is the same afterwards, and
\* nothing is finished, handed on, saved or skipped.
C21_OrphanOrAppend ==
    [][ \A v \in DOMAIN channelHandlers' :
            (HoldsHeaderless(v) /\ packet' = <<>>) =>
                LET zone == M_PDU(VCDU(packet[1]).MPDU).PACKET
                IN  /\ Len(zone) = ZoneLen
                    /\ pc' = "loop"
                    /\ channelHandlers'[v].cTPFile = ChannelOf(v).cTPFile
                    /\ channelHandlers'[v].cCPPDU =
                           IF ChannelOf(v).cCPPDU = <<>> THEN <<>>
                           ELSE << [ChannelOf(v).cCPPDU[1] EXCEPT !.PAYLOAD = @ \o zone] >>
                    /\ handled'[v] = HandledOf(v)
                    /\ finished'[v] = FinishedOf(v)
                    /\ UNCHANGED << files, skips, spdus >> ]_vars

C21_ZoneAppended ==
    /\ scenario.name = "long"
    /\ drops = 0
    /\ Len(dispatched) = 2
    /\ packet = <<>>
    /\ ~M_PDU(VCDU(dispatched[2]).MPDU).HEADER
    /\ Len(channelHandlers[5].cCPPDU[1].PAYLOAD) = 2 * ZoneLen - 6
    /\ channelHandlers[5].cTPFile = <<>>


\* The VCIDs of the frames for a channel that the worker has processed.
SeenVCIDs == { VCDU(Processed[i]).VCID : i \in {k \in 1..Len(Processed) : IsForChannel(Processed[k])} }

\* The frame in the worker's hands is for channel v.
HoldsFor(v) == packet # <<>> /\ IsForChannel(packet[1]) /\ VCDU(packet[1]).VCID = v

\* C22: the channel map holds a handler for exactly the VCIDs, other than
\* 63, of the supported spacecraft's frames processed so far; a handler stays
\* in the map, is as it was after any step that does not process a frame of
\* its VCID, and after one that does it still has the TP_File it had, and
\* the CP_PDU it had when the frame has no header.
C22_HandlersLazyAndKept ==
    /\ [](DOMAIN channelHandlers = SeenVCIDs)
    /\ [][ \A v \in DOMAIN channelHandlers :
               /\ v \in DOMAIN channelHandlers'
               /\ ~(HoldsFor(v) /\ packet' = <<>>) => channelHandlers'[v] = channelHandlers[v]
               /\ channelHandlers[v].cTPFile # <<>> => channelHandlers'[v].cTPFile # <<>>
               /\ (HoldsHeaderless(v) /\ channelHandlers[v].cCPPDU # <<>>)
                      => channelHandlers'[v].cCPPDU # <<>> ]_vars

C22_TwoHandlers ==
    /\ scenario.name = "mixed"
    /\ drops = 0
    /\ Len(Processed) = 5
    /\ DOMAIN channelHandlers = {0, 1}
    /\ \E i \in 1..Len(Processed) : IsFill(Processed[i])
    /\ \E i \in 1..Len(Processed) : ~IsSupported(Processed[i])
    /\ Len(files) > 0


\* A new channel handler given the frames one after the other, alone.
RECURSIVE FedAlone(_, _)
FedNext(w, vcdu, rest) ==
    ValueOf(data_in(w, vcdu, CCITT_LUT), LAMBDA w1 : FedAlone(w1, rest))

FedAlone(w, frames) ==
    IF frames = <<>> \/ w.status # "ok" THEN w
    ELSE ValueOf(VCDU(Head(frames)), LAMBDA vcdu : FedNext(w, vcdu, Tail(frames)))

Alone(v) ==
    ValueOf(DispatchedTo(v),
            LAMBDA frames : FedAlone(WorkOf(Channel_init, <<>>, <<>>, <<>>, <<>>, keys, <<>>),
                                     frames))

SameAsAlone(ch, hd, fin, w) ==
    /\ ch.cCPPDU = w.cCPPDU
    /\ ch.cTPFile = w.cTPFile
    /\ hd = w.handled
    /\ fin = w.finished

\* C23: a step that dispatches a frame with VCID v leaves the CP_PDU and the
\* TP_File of every other channel, and what that channel has finished and
\* handed on, as they were; and whenever the worker holds no frame, each
\* channel has the CP_PDU, the TP_File and the finished and handed-on CP_PDUs
\* of a new handler given the frames of that channel's VCID alone.
C23_Isolation ==
    /\ [][ \A v, u \in DOMAIN channelHandlers :
               (HoldsFor(v) /\ packet' = <<>> /\ u # v)
                   => /\ channelHandlers'[u] = channelHandlers[u]
                      /\ handled'[u] = handled[u]
                      /\ finished'[u] = finished[u] ]_vars
    /\ [](packet = <<>> /\ pc \in {"loop", "hung", "raised"} =>
              \A v \in DOMAIN channelHandlers :
                  \E w \in {Alone(v)} :
                      SameAsAlone(channelHandlers[v], handled[v], finished[v], w))

C23_Interleaved ==
    /\ scenario.name = "mixed"
    /\ drops = 0
    /\ Len(Processed) = 5
    /\ Len(DispatchedTo(1)) = 2
    /\ Len(DispatchedTo(0)) = 1
    /\ VCDU(dispatched[2]).VCID = 0
    /\ Len(Alone(1).files) = 1
    /\ Len(files) > 0


\* Channel v's current CP_PDU is the one handed to handle_CPPDU last.
AlreadyHanded(v) ==
    /\ channelHandlers[v].cCPPDU # <<>>
    /\ handled[v] # <<>>
    /\ SameCpPdu(handled[v][Len(handled[v])], channelHandlers[v].cCPPDU[1])
    /\ handled[v][Len(handled[v])].PAYLOAD = channelHandlers[v].cCPPDU[1].PAYLOAD

StartsWith(s, t) == Len(s) >= Len(t) /\ SubSeq(s, 1, Len(t)) = t

\* C24: once the current CP_PDU of a channel has been handed to
\* handle_CPPDU, processing a further frame of that channel appends nothing to
\* it, finishes it no second time and hands it on no second time.
C24_HandedOnce ==
    [][ \A v \in DOMAIN channelHandlers :
            (HoldsFor(v) /\ packet' = <<>> /\ AlreadyHanded(v))
                => LET old == channelHandlers[v].cCPPDU[1]
                   IN  /\ HoldsHeaderless(v) => channelHandlers'[v].cCPPDU = <<old>>
                       /\ \A i \in (Len(finished[v]) + 1)..Len(finished'[v]) :
                              ~( /\ finished'[v][i].SEQ = old.SEQ
                                 /\ StartsWith(finished'[v][i].PAYLOAD, old.PAYLOAD) )
                       /\ \A i \in (Len(handled[v]) + 1)..Len(handled'[v]) :
                              ~SameCpPdu(handled'[v][i], old) ]_vars

\* C24's case as the code runs it: the short LAST CP_PDU of the first file is
\* handed on when its frame is processed and once more, with the start of the
\* next zone appended, when the next frame is.
C24_HandedTwice ==
    /\ scenario.name = "backtoback"
    /\ drops = 0
    /\ Len(dispatched) = 3
    /\ packet = <<>>
    /\ Len(handled[4]) = 3
    /\ handled[4][2].SEQ = "LAST"
    /\ SameCpPdu(handled[4][3], handled[4][2])
    /\ Len(handled[4][2].PAYLOAD) = handled[4][2].LENGTH
    /\ Len(handled[4][3].PAYLOAD) > handled[4][3].LENGTH
    /\ Len(files) = 1


\* The CP_PDUs that the step hands to handle_CPPDU on channel v.
NewlyHanded(v) == SubSeq(handled'[v], Len(HandledOf(v)) + 1, Len(handled'[v]))

\* C25: when a frame is processed on a channel that holds no TP_File and
\* what it hands to handle_CPPDU is CONTINUE or LAST CP_PDUs only, the channel
\* holds no TP_File afterwards, no file is saved or skipped, and the worker
\* goes back to its loop for the next frame.
C25_NoTpFileNoStop ==
    [][ \A v \in DOMAIN channelHandlers' :
            ( /\ HoldsFor(v)
              /\ packet' = <<>>
              /\ ChannelOf(v).cTPFile = <<>>
              /\ NewlyHanded(v) # <<>>
              /\ \A i \in 1..Len(NewlyHanded(v)) : NewlyHanded(v)[i].SEQ \in {"CONTINUE", "LAST"} )
            => /\ channelHandlers'[v].cTPFile = <<>>
               /\ \A i \in 1..Len(NewlyHanded(v)) : ~NewlyHanded(v)[i].tpfile
               /\ UNCHANGED <<files, skips, spdus>>
               /\ pc' = "loop" ]_vars

\* C25's case: the frame with the FIRST CP_PDU of run "clean" was lost; the
\* CONTINUE and the LAST CP_PDU were handed on with no TP_File, every later
\* frame was processed, and no file was written.
C25_FirstLost ==
    /\ scenario.name = "clean"
    /\ drops = 1
    /\ link = <<>>
    /\ Len(dispatched) = 3
    /\ Len(Processed) = 3
    /\ packet = <<>>
    /\ pc = "loop"
    /\ Len(handled[0]) = 2
    /\ handled[0][1].SEQ = "CONTINUE" /\ ~handled[0][1].tpfile
    /\ handled[0][2].SEQ = "LAST" /\ ~handled[0][2].tpfile
    /\ channelHandlers[0].cTPFile = <<>>
    /\ files = <<>>
    /\ skips = <<>>


\* C26: the header walks of S_PDU.parse and xRIT.parse end for every file that
\* reaches them: the worker is never inside a walk that does not end, and no
\* S_PDU was left unbuilt by one.
C26_WalksTerminate ==
    /\ pc # "hung"
    /\ \A i \in 1..Len(spdus) : spdus[i].spdu.status # "hung"

\* C26's case as the code runs it: the file of run "noname", complete and of
\* the declared length, has no annotation text header, and the worker is in
\* the walk of xRIT.parse for good, with no file written.
C26_WalkNeverEnds ==
    /\ scenario.name = "noname"
    /\ drops = 0
    /\ pc = "hung"
    /\ Len(dispatched) = 2
    /\ Len(spdus) = 1
    /\ spdus[1].spdu.status = "ok"
    /\ AnnotationOffset(spdus[1].spdu.PLAINTEXT, 16) = -1
    /\ files = <<>>
    /\ skips = <<>>


\* C27: when the frontend, Demuxer() having returned, makes its readiness
\* check, coreReady is set: the check passes and the frontend never exits.
C27_ReadyAtCheck ==
    [][ (frontend = "init" /\ frontend' # "init") => (coreReady /\ frontend' = "loop") ]_vars

\* C27's case as the code runs it: the frontend made its check before the core
\* thread ran its first statement and has exited; the core thread, which is
\* no daemon, polls a queue that nothing fills.
C27_CheckFailed ==
    /\ frontend = "exit"
    /\ coreReady
    /\ pc = "pull"
    /\ ~coreStop
    /\ rxq = <<>>
    /\ pushed = <<>>
    /\ link # <<>>

====
